---- MODULE Spec2Model ----
(***************************************************************************)
(* Model of the npm-downloads community connector (src/src/main.js).      *)
(*                                                                         *)
(* JavaScript strings are sequences of one-character strings, so that      *)
(* split / trim / join / replace are computed, not assumed.  JavaScript    *)
(* values are tagged records; an object is an ordered list of properties   *)
(* (Object.keys order).  A call either returns a value or throws.          *)
(***************************************************************************)
EXTENDS Integers, Sequences, FiniteSets, TLC

VARIABLES
    request,    \* the request object the host holds (mutable, passed by reference)
    upstream,   \* what UrlFetchApp.fetch answered in the last getData call
    fetched,    \* the URL of the last HTTP GET
    args,       \* the arguments of the last direct call of a helper
    op,         \* the last operation
    ret         \* its outcome: a returned value or a thrown error

vars == <<request, upstream, fetched, args, op, ret>>

(***************************************************************************)
(* Bounds of the model.                                                    *)
(***************************************************************************)
MaxPkgLen == 3      \* longest generated `package` input string
MaxDays   == 2      \* longest generated download sequence of one package
MaxFields == 2      \* longest generated field list of a direct formatData call

(***************************************************************************)
(* Strings.                                                                *)
(***************************************************************************)
Chars == {"a", ",", " "}

Str(alphabet, n) == UNION {[1..k -> alphabet] : k \in 0..n}

DEFAULT_PACKAGE == <<"g","o","o","g","l","e","a","p","i","s">>

LeftPad == <<"l","e","f","t","-","p","a","d">>

K_package   == <<"p","a","c","k","a","g","e">>
K_downloads == <<"d","o","w","n","l","o","a","d","s">>
K_day       == <<"d","a","y">>
K_error     == <<"e","r","r","o","r">>
K_values    == <<"v","a","l","u","e","s">>

Day1 == <<"2","0","2","3","-","0","1","-","0","1">>
Day2 == <<"2","0","2","3","-","0","1","-","0","2">>

IsWhitespace(c) == c = " "

\* String.prototype.split(sep) for a one-character separator: always at
\* least one piece, empty pieces kept.
RECURSIVE split(_, _)
split(s, sep) ==
    IF \A i \in 1..Len(s) : s[i] # sep
    THEN <<s>>
    ELSE LET i == CHOOSE k \in 1..Len(s) :
                      s[k] = sep /\ \A j \in 1..(k - 1) : s[j] # sep
         IN  <<SubSeq(s, 1, i - 1)>> \o split(SubSeq(s, i + 1, Len(s)), sep)

\* String.prototype.trim: whitespace removed at both ends only.
RECURSIVE trim(_)
trim(x) ==
    IF x = <<>> THEN x
    ELSE IF IsWhitespace(x[1]) THEN trim(Tail(x))
    ELSE IF IsWhitespace(x[Len(x)]) THEN trim(SubSeq(x, 1, Len(x) - 1))
    ELSE x

\* Array.prototype.join(sep).
RECURSIVE join(_, _)
join(list, sep) ==
    IF list = <<>> THEN <<>>
    ELSE IF Len(list) = 1 THEN list[1]
    ELSE list[1] \o <<sep>> \o join(Tail(list), sep)

\* As stripDashes, had the pattern no `g` flag: only the first '-' removed.
stripFirstDash(s) ==
    IF \E i \in 1..Len(s) : s[i] = "-"
    THEN LET i == CHOOSE k \in 1..Len(s) :
                      s[k] = "-" /\ \A j \in 1..(k - 1) : s[j] # "-"
         IN  SubSeq(s, 1, i - 1) \o SubSeq(s, i + 1, Len(s))
    ELSE s

\* String.prototype.replace(/-/g, ''): every '-' removed.
stripDashes(s) == SelectSeq(s, LAMBDA c : c # "-")

(***************************************************************************)
(* JavaScript values.                                                      *)
(***************************************************************************)
JUndefined == [t |-> "undefined"]
JNull      == [t |-> "null"]
JStr(s)    == [t |-> "str", s |-> s]
JNum(n)    == [t |-> "num", n |-> n]
JArr(es)   == [t |-> "arr", elems |-> es]
JObj(ps)   == [t |-> "obj", props |-> ps]
Prop(k, v) == [k |-> k, v |-> v]

Return(v) == [kind |-> "return", value |-> v]
Throw(e)  == [kind |-> "throw", error |-> e]

\* ToBoolean, as used by `||`.
Truthy(v) ==
    CASE v.t = "undefined" -> FALSE
      [] v.t = "null"      -> FALSE
      [] v.t = "str"       -> v.s # <<>>
      [] v.t = "num"       -> v.n # 0
      [] OTHER             -> TRUE

Digits == <<"0","1","2","3","4","5","6","7","8","9">>

\* Object.keys(v) of a non-nullish value: own enumerable property names.
ObjectKeys(v) ==
    CASE v.t = "obj" -> [i \in 1..Len(v.props) |-> v.props[i].k]
      [] v.t = "arr" -> [i \in 1..Len(v.elems) |-> <<Digits[i]>>]
      [] v.t = "str" -> [i \in 1..Len(v.s) |-> <<Digits[i]>>]
      [] OTHER       -> <<>>

\* v[key] of a non-nullish value.
Get(v, key) ==
    CASE v.t = "obj" ->
            IF \E i \in 1..Len(v.props) : v.props[i].k = key
            THEN v.props[CHOOSE i \in 1..Len(v.props) : v.props[i].k = key].v
            ELSE JUndefined
      [] v.t = "arr" ->
            IF \E i \in 1..Len(v.elems) : key = <<Digits[i]>>
            THEN v.elems[CHOOSE i \in 1..Len(v.elems) : key = <<Digits[i]>>]
            ELSE JUndefined
      [] v.t = "str" ->
            IF \E i \in 1..Len(v.s) : key = <<Digits[i]>>
            THEN JStr(<<v.s[CHOOSE i \in 1..Len(v.s) : key = <<Digits[i]>>]>>)
            ELSE JUndefined
      [] OTHER -> JUndefined

\* o[key] = value on an object: overwrite in place or append.
Put(o, key, value) ==
    IF \E i \in 1..Len(o.props) : o.props[i].k = key
    THEN JObj([i \in 1..Len(o.props) |->
                 IF o.props[i].k = key THEN Prop(key, value) ELSE o.props[i]])
    ELSE JObj(Append(o.props, Prop(key, value)))

IsNullish(v) == v.t \in {"undefined", "null"}

(***************************************************************************)
(* validateConfig (lines 185-197).                                         *)
(***************************************************************************)
validateConfig(configParams) ==
    LET c    == IF Truthy(configParams) THEN configParams ELSE JObj(<<>>)
        p    == IF Truthy(Get(c, K_package))
                THEN Get(c, K_package)
                ELSE JStr(DEFAULT_PACKAGE)
        c1   == Put(c, K_package, p)
        pcs  == split(Get(c1, K_package).s, ",")
        trimmed == [i \in 1..Len(pcs) |-> trim(pcs[i])]
    IN  Put(c1, K_package, JStr(join(trimmed, ",")))

(***************************************************************************)
(* Schema (lines 43-68) and the requested subset (lines 82-86).            *)
(***************************************************************************)
getFields ==
    << [id |-> "packageName", name |-> "Package", type |-> "TEXT",
        aggregation |-> "NONE"],
       [id |-> "day", name |-> "Date", type |-> "YEAR_MONTH_DAY",
        aggregation |-> "NONE"],
       [id |-> "downloads", name |-> "Downloads", type |-> "NUMBER",
        aggregation |-> "SUM"] >>

\* Fields.forIds(ids): the declared fields with these ids, in the order asked.
forIds(fields, ids) ==
    [i \in 1..Len(ids) |->
        fields[CHOOSE k \in 1..Len(fields) : fields[k].id = ids[i]]]

(***************************************************************************)
(* Fetcher (lines 113-124).                                                *)
(***************************************************************************)
\* What Array.prototype.join makes of one element: undefined and null give
\* the empty string.
joinPiece(v) == IF v.t = "str" THEN v.s ELSE <<>>

\* Lines 114-121: the URL, or the TypeError of reading `package` from a
\* missing configParams.
fetchUrl(req) ==
    IF IsNullish(req.configParams) THEN Throw("TypeError")
    ELSE Return(
           [base |-> "https://api.npmjs.org/downloads/range/",
            path |-> req.dateRange.startDate \o <<":">> \o req.dateRange.endDate
                       \o <<"/">> \o joinPiece(Get(req.configParams, K_package))])

(***************************************************************************)
(* Response text.  A body is either not JSON at all or the text of a       *)
(* value; JSON.parse throws on the first and yields the value of the       *)
(* second.                                                                 *)
(***************************************************************************)
Malformed == [wellFormed |-> FALSE]
Doc(v)    == [wellFormed |-> TRUE, value |-> v]

JSON_parse(text) ==
    IF text.wellFormed THEN Return(text.value) ELSE Throw("SyntaxError")

(***************************************************************************)
(* normalizeResponse (lines 135-147).                                      *)
(***************************************************************************)
\* As normalizeResponse, had it chosen its branch from the response's keys
\* (a `downloads` key meaning the single-package shape).
normalizeResponse_byShape(req, responseString) ==
    LET parsed == JSON_parse(responseString)
    IN  IF parsed.kind = "throw" THEN parsed
        ELSE IF IsNullish(req.configParams) THEN Throw("TypeError")
        ELSE IF Get(req.configParams, K_package).t # "str" THEN Throw("TypeError")
        ELSE LET package_list == split(Get(req.configParams, K_package).s, ",")
             IN  IF ~IsNullish(parsed.value)
                      /\ ~IsNullish(Get(parsed.value, K_downloads))
                 THEN Return(Put(JObj(<<>>), package_list[1], parsed.value))
                 ELSE Return(parsed.value)

normalizeResponse(req, responseString) ==
    LET parsed == JSON_parse(responseString)
    IN  IF parsed.kind = "throw" THEN parsed
        ELSE IF IsNullish(req.configParams) THEN Throw("TypeError")
        ELSE IF Get(req.configParams, K_package).t # "str" THEN Throw("TypeError")
        ELSE LET package_list == split(Get(req.configParams, K_package).s, ",")
             IN  IF Len(package_list) = 1
                 THEN Return(Put(JObj(<<>>), package_list[1], parsed.value))
                 ELSE Return(parsed.value)

(***************************************************************************)
(* formatData (lines 208-222).                                             *)
(***************************************************************************)
\* The switch of lines 210-219 for one requested field.
formatField(id, packageName, dailyDownload) ==
    CASE id = "day" ->
            IF IsNullish(dailyDownload) THEN Throw("TypeError")
            ELSE IF Get(dailyDownload, K_day).t # "str" THEN Throw("TypeError")
            ELSE Return(JStr(stripDashes(Get(dailyDownload, K_day).s)))
      [] id = "downloads" ->
            IF IsNullish(dailyDownload) THEN Throw("TypeError")
            ELSE Return(Get(dailyDownload, K_downloads))
      [] id = "packageName" -> Return(JStr(packageName))
      [] OTHER -> Return(JStr(<<>>))

\* As formatData, had it returned the row itself instead of {values: row}.
formatData_bare(requestedFields, packageName, dailyDownload) ==
    LET cells == [i \in 1..Len(requestedFields) |->
                    formatField(requestedFields[i].id, packageName, dailyDownload)]
    IN  IF \E i \in 1..Len(cells) : cells[i].kind = "throw"
        THEN Throw("TypeError")
        ELSE Return(JArr([i \in 1..Len(cells) |-> cells[i].value]))

formatData(requestedFields, packageName, dailyDownload) ==
    LET cells == [i \in 1..Len(requestedFields) |->
                    formatField(requestedFields[i].id, packageName, dailyDownload)]
    IN  IF \E i \in 1..Len(cells) : cells[i].kind = "throw"
        THEN Throw("TypeError")
        ELSE Return(JObj(<<Prop(K_values,
                                JArr([i \in 1..Len(cells) |-> cells[i].value]))>>))

(***************************************************************************)
(* getFormattedData (lines 159-170).                                       *)
(***************************************************************************)
\* Lines 162-166 for one key of the response.
formatPackage(response, requestedFields, packageName) ==
    LET package == Get(response, packageName)
    IN  IF IsNullish(package) THEN Throw("TypeError")
        ELSE LET downloadData == Get(package, K_downloads)
             IN  IF downloadData.t # "arr" THEN Throw("TypeError")
                 ELSE LET formatted ==
                            [i \in 1..Len(downloadData.elems) |->
                                formatData(requestedFields, packageName,
                                           downloadData.elems[i])]
                      IN  IF \E i \in 1..Len(formatted) : formatted[i].kind = "throw"
                          THEN Throw("TypeError")
                          ELSE Return([i \in 1..Len(formatted) |-> formatted[i].value])

\* data = data.concat(formattedData), over the keys in order (line 167).
RECURSIVE concatPackages(_, _, _)
concatPackages(response, requestedFields, keys) ==
    IF keys = <<>> THEN Return(<<>>)
    ELSE LET first == formatPackage(response, requestedFields, keys[1])
         IN  IF first.kind = "throw" THEN first
             ELSE LET rest == concatPackages(response, requestedFields, Tail(keys))
                  IN  IF rest.kind = "throw" THEN rest
                      ELSE Return(first.value \o rest.value)

\* As getFormattedData, had line 167 been `data = formattedData`: only the
\* last package's rows survive.
getFormattedData_noConcat(response, requestedFields) ==
    IF IsNullish(response) THEN Throw("TypeError")
    ELSE LET keys == ObjectKeys(response)
             all  == concatPackages(response, requestedFields, keys)
         IN  IF all.kind = "throw" \/ keys = <<>> THEN all
             ELSE formatPackage(response, requestedFields, keys[Len(keys)])

getFormattedData(response, requestedFields) ==
    IF IsNullish(response) THEN Throw("TypeError")
    ELSE concatPackages(response, requestedFields, ObjectKeys(response))

(***************************************************************************)
(* getData (lines 79-105).                                                 *)
(***************************************************************************)
\* As resolveRequest, had line 80 not stored the result back.
resolveRequest_notStored(req) == req

\* Line 80: the resolved configuration is stored back into the request.
resolveRequest(req) ==
    [req EXCEPT !.configParams = validateConfig(req.configParams)]

\* Lines 88-91: the body of the try block, given what the fetch did.
tryBlock(req, requestedFields, fetchResult) ==
    IF fetchUrl(req).kind = "throw" THEN fetchUrl(req)
    ELSE IF fetchResult.kind = "throw" THEN fetchResult
    ELSE LET normalizedResponse == normalizeResponse(req, fetchResult.value)
         IN  IF normalizedResponse.kind = "throw" THEN normalizedResponse
             ELSE getFormattedData(normalizedResponse.value, requestedFields)

\* Lines 101-104.  `data` is declared with `let` inside the try block
\* (line 91), so the `data` of line 103 is not that binding: it names a
\* global that the file never defines, and reading it throws.
returnStatement(requestedFields, data) ==
    Throw("ReferenceError")

\* As getData without the catch of lines 92-99: the error leaves as it is.
getData_uncaught(req0, fetchResult) ==
    LET req == resolveRequest(req0)
        requestedFields ==
            forIds(getFields, [i \in 1..Len(req.fields) |-> req.fields[i].name])
        data == tryBlock(req, requestedFields, fetchResult)
    IN  IF data.kind = "throw"
        THEN data
        ELSE returnStatement(requestedFields, data.value)

getData(req0, fetchResult) ==
    LET req == resolveRequest(req0)
        requestedFields ==
            forIds(getFields, [i \in 1..Len(req.fields) |-> req.fields[i].name])
        data == tryBlock(req, requestedFields, fetchResult)
    IN  IF data.kind = "throw"
        THEN Throw("UserError")
        ELSE returnStatement(requestedFields, data.value)

(***************************************************************************)
(* The host's inputs.                                                      *)
(***************************************************************************)
PkgAB  == <<"a", ",", "b">>
PkgABC == <<" ", "a", " ", ",", " ", "b", " ", ",", "c", " ">>

PackageInputs == Str(Chars, MaxPkgLen) \cup {LeftPad, PkgAB, PkgABC}

\* configParams as the host may pass it: missing, without `package`, or
\* with a `package` string.
ConfigInputs ==
    {JUndefined, JObj(<<>>)}
        \cup {JObj(<<Prop(K_package, JStr(s))>>) : s \in PackageInputs}

FieldIds == {"packageName", "day", "downloads"}

RequestFieldLists ==
    { <<"packageName", "day", "downloads">>,
      <<"packageName", "downloads">>,
      <<"day">>,
      <<"packageName">> }

DateRange == [startDate |-> Day1, endDate |-> Day2]

Requests ==
    { [configParams |-> c,
       dateRange    |-> DateRange,
       fields       |-> [i \in 1..Len(fl) |-> [name |-> fl[i]]]] :
         c \in ConfigInputs, fl \in RequestFieldLists }

NoRequest == [none |-> TRUE]
NoValue   == [none |-> TRUE]

\* One day's entry of a download sequence, as upstream may send it: two
\* well-formed days, an entry without `day`, and null.
Daily(day, n) == JObj(<<Prop(K_downloads, JNum(n)), Prop(K_day, JStr(day))>>)

DailyInputs ==
    { Daily(Day1, 10), Daily(Day2, 20),
      JObj(<<Prop(K_downloads, JNum(10))>>), JNull }

\* The single-package shape: {downloads: [...]}.
Single(days) == JObj(<<Prop(K_downloads, JArr(days))>>)

SingleInputs == {Single(days) : days \in Str(DailyInputs, MaxDays)}

\* The multi-package shape: a mapping from package name to the single shape,
\* or to null for a package upstream does not know.
MultiKeyLists == {<<>>, <<"a">>, <<"b">>, <<"a", "b">>, <<"b", "a">>}

MultiValues ==
    { JNull, Single(<<>>), Single(<<Daily(Day1, 10)>>),
      Single(<<Daily(Day1, 10), Daily(Day2, 20)>>) }

MultiInputs ==
    UNION { { JObj([i \in 1..Len(ks) |-> Prop(<<ks[i]>>, vs[i])]) :
                vs \in [1..Len(ks) -> MultiValues] } : ks \in MultiKeyLists }

OtherInputs ==
    { JNull, JNum(5), JArr(<<>>),
      JObj(<<Prop(K_error, JStr(<<"a">>))>>) }

ResponseTexts ==
    {Malformed} \cup {Doc(v) : v \in SingleInputs \cup MultiInputs \cup OtherInputs}

\* What UrlFetchApp.fetch may do: throw, or return a body.
FetchResults == {Throw("Exception")} \cup {Return(text) : text \in ResponseTexts}

\* Field lists of a direct formatData call, ids outside the schema included.
AnyFieldIds == FieldIds \cup {"other"}

FieldDescriptor(id) ==
    IF id \in FieldIds
    THEN getFields[CHOOSE k \in 1..Len(getFields) : getFields[k].id = id]
    ELSE [id |-> id, name |-> "Other", type |-> "TEXT", aggregation |-> "NONE"]

FormatFieldLists ==
    { [i \in 1..Len(ids) |-> FieldDescriptor(ids[i])] :
        ids \in Str(AnyFieldIds, MaxFields) }
      \cup { forIds(getFields, <<"packageName", "day", "downloads">>) }

(***************************************************************************)
(* Actions.  The host drives the connector: it builds a request, calls     *)
(* getData (or, as a test would, one of the helpers) and discards the      *)
(* request when it is done with it.                                        *)
(***************************************************************************)
Init ==
    /\ request  = NoRequest
    /\ upstream = NoValue
    /\ fetched  = NoValue
    /\ args     = NoValue
    /\ op       = "init"
    /\ ret      = NoValue

\* The host builds a fresh request object.
NewRequest ==
    /\ op = "init"
    /\ \E r \in Requests : request' = r
    /\ op' = "newRequest"
    /\ ret' = NoValue
    /\ args' = NoValue
    /\ upstream' = NoValue
    /\ fetched' = NoValue

\* The host drops everything it holds.
Discard ==
    /\ op # "init"
    /\ request' = NoRequest
    /\ upstream' = NoValue
    /\ fetched' = NoValue
    /\ args' = NoValue
    /\ op' = "init"
    /\ ret' = NoValue

\* validateConfig(request.configParams), called directly.  When configParams
\* is an object it is updated in place (lines 187, 189) and returned, so the
\* host's request sees the update; when it is missing a new object is
\* returned and the request keeps no reference to it.
ValidateConfig ==
    /\ op = "newRequest"
    /\ LET result == validateConfig(request.configParams)
       IN  /\ ret' = Return(result)
           /\ request' = IF Truthy(request.configParams)
                         THEN [request EXCEPT !.configParams = result]
                         ELSE request
    /\ args' = [configParams |-> request.configParams]
    /\ op' = "validateConfig"
    /\ UNCHANGED <<upstream, fetched>>

\* validateConfig applied to the object the previous validateConfig returned.
ValidateConfigAgain ==
    /\ op \in {"validateConfig", "validateConfigAgain"}
    /\ LET result == validateConfig(ret.value)
       IN  /\ ret' = Return(result)
           /\ request' = IF Truthy(request.configParams)
                         THEN [request EXCEPT !.configParams = result]
                         ELSE request
    /\ args' = [configParams |-> ret.value]
    /\ op' = "validateConfigAgain"
    /\ UNCHANGED <<upstream, fetched>>

\* The host keeps the request object of a finished getData call for a
\* later call and drops the rest.
Reuse ==
    /\ op = "getData"
    /\ op' = "newRequest"
    /\ ret' = NoValue
    /\ args' = NoValue
    /\ upstream' = NoValue
    /\ fetched' = NoValue
    /\ UNCHANGED request

\* getData(request): the whole handler, for one answer of the fetch.
GetData ==
    /\ op = "newRequest"
    /\ \E fetchResult \in FetchResults :
          /\ upstream' = fetchResult
          /\ ret' = getData(request, fetchResult)
    /\ request' = resolveRequest(request)
    /\ fetched' = fetchUrl(request')
    /\ args' = NoValue
    /\ op' = "getData"

\* normalizeResponse(request, text), called directly on a fresh or an
\* already-resolved request.
NormalizeResponse ==
    /\ op \in {"newRequest", "validateConfig"}
    /\ \E text \in ResponseTexts :
          /\ args' = [responseString |-> text]
          /\ ret' = normalizeResponse(request, text)
    /\ op' = "normalizeResponse"
    /\ UNCHANGED <<request, upstream, fetched>>

\* getFormattedData called directly on what normalizeResponse returned, with
\* the request's fields.
GetFormattedData ==
    /\ op = "normalizeResponse"
    /\ ret.kind = "return"
    /\ LET requestedFields ==
               forIds(getFields,
                      [i \in 1..Len(request.fields) |-> request.fields[i].name])
       IN  /\ args' = [response |-> ret.value, requestedFields |-> requestedFields]
           /\ ret' = getFormattedData(ret.value, requestedFields)
    /\ op' = "getFormattedData"
    /\ UNCHANGED <<request, upstream, fetched>>

\* formatData called directly.
FormatData ==
    /\ op = "init"
    /\ \E requestedFields \in FormatFieldLists,
          packageName \in {<<"a">>, LeftPad},
          dailyDownload \in DailyInputs :
          /\ args' = [requestedFields |-> requestedFields,
                      packageName |-> packageName,
                      dailyDownload |-> dailyDownload]
          /\ ret' = formatData(requestedFields, packageName, dailyDownload)
    /\ op' = "formatData"
    /\ UNCHANGED <<request, upstream, fetched>>

Next ==
    \/ NewRequest
    \/ Discard
    \/ ValidateConfig
    \/ ValidateConfigAgain
    \/ GetData
    \/ Reuse
    \/ NormalizeResponse
    \/ GetFormattedData
    \/ FormatData

Spec == Init /\ [][Next]_vars

(***************************************************************************)
(* Properties.                                                             *)
(***************************************************************************)
\* The `package` string of a configuration object.
PackageOf(c) == Get(c, K_package).s

IsBlank(s) == \A i \in 1..Len(s) : IsWhitespace(s[i])

IsTrimmed(s) == s = <<>> \/ (~IsWhitespace(s[1]) /\ ~IsWhitespace(s[Len(s)]))

\* The configuration is missing, or has no `package`, or a blank one.
PackageAbsentOrBlank(c) ==
    \/ IsNullish(c)
    \/ IsNullish(Get(c, K_package))
    \/ Get(c, K_package).t = "str" /\ IsBlank(PackageOf(c))

\* C3: whenever validateConfig is given a configuration that is missing or
\* whose `package` is missing or blank (empty or whitespace only), the
\* configuration it returns has the default package name as its `package`.
C3_BlankYieldsDefault ==
    (op = "validateConfig" /\ PackageAbsentOrBlank(args.configParams))
        => PackageOf(ret.value) = DEFAULT_PACKAGE

\* C4: the `package` validateConfig returns is a non-empty comma-separated
\* list in which every element is trimmed and non-empty.
C4_ListOfNonEmptyTrimmedNames ==
    op = "validateConfig"
        => LET list == split(PackageOf(ret.value), ",")
           IN  /\ Len(list) >= 1
               /\ \A i \in 1..Len(list) : list[i] # <<>> /\ IsTrimmed(list[i])

\* C9: validateConfig is idempotent: applied to a configuration it has
\* returned, it returns the same `package`.
C9_Idempotent ==
    [][op' = "validateConfigAgain" => PackageOf(ret'.value) = PackageOf(ret.value)]_vars

\* C10 as stated: a call of validateConfig or of getData leaves the
\* caller's request object, its configuration included, as it was.
C10_CallerObjectUnchanged ==
    [][op' \in {"validateConfig", "validateConfigAgain", "getData"}
          => request' = request]_vars

\* C10, amended: a call of validateConfig or of getData changes nothing of
\* the caller's request but its configParams; validateConfig leaves a
\* missing configParams missing and otherwise leaves in it the `package` it
\* returns, and after getData the request's configParams holds a `package`
\* whose comma-separated elements are all trimmed.
C10_OnlyConfigParamsWritten ==
    [][op' \in {"validateConfig", "validateConfigAgain", "getData"}
          => /\ request'.dateRange = request.dateRange
             /\ request'.fields = request.fields
             /\ op' # "getData" =>
                   IF IsNullish(request.configParams)
                   THEN request'.configParams = request.configParams
                   ELSE request'.configParams = ret'.value
             /\ op' = "getData" =>
                   /\ ~IsNullish(request'.configParams)
                   /\ Get(request'.configParams, K_package).t = "str"
                   /\ LET list == split(PackageOf(request'.configParams), ",")
                      IN  \A i \in 1..Len(list) : IsTrimmed(list[i])]_vars

\* C10 witness: validateConfig was given a configuration object and the
\* caller's object no longer has the `package` it was called with.
C10_Witness ==
    /\ op = "validateConfig"
    /\ ~IsNullish(args.configParams)
    /\ request.configParams # args.configParams
    /\ request.configParams = ret.value
    /\ Get(args.configParams, K_package) = JStr(<<" ", "a", ",">>)
    /\ Get(request.configParams, K_package) = JStr(<<"a", ",">>)

\* The number of entries of the request's comma-separated package list.
RequestedCount(req) ==
    Cardinality({i \in 1..Len(PackageOf(req.configParams)) :
                    PackageOf(req.configParams)[i] = ","}) + 1

\* The shapes of section 3 of the specification.
IsDaily(v) ==
    v.t = "obj" /\ Get(v, K_day).t = "str" /\ Get(v, K_downloads).t = "num"

IsSingleShape(v) ==
    /\ v.t = "obj"
    /\ Get(v, K_downloads).t = "arr"
    /\ \A i \in 1..Len(Get(v, K_downloads).elems) :
           IsDaily(Get(v, K_downloads).elems[i])

IsNormalizedResponse(v) ==
    v.t = "obj" /\ \A i \in 1..Len(v.props) : IsSingleShape(v.props[i].v)

ExpectedShape(req, v) ==
    IF RequestedCount(req) = 1 THEN IsSingleShape(v) ELSE IsNormalizedResponse(v)

RequestedNames(req) == [i \in 1..Len(req.fields) |-> req.fields[i].name]

\* The fetch of the last getData call returned a body that parses.
Parsed == upstream.kind = "return" /\ upstream.value.wellFormed

\* C1: when the fetch succeeds and the body parses to the expected shape,
\* getData returns {schema, rows} with rows the Row Formatter's output for
\* the normalized response.
C1_SuccessReturnsRows ==
    (op = "getData" /\ Parsed /\ ExpectedShape(request, upstream.value.value))
        => /\ ret.kind = "return"
           /\ ret.value.rows =
                  getFormattedData(
                      normalizeResponse(request, upstream.value).value,
                      forIds(getFields, RequestedNames(request))).value

\* C2 as stated: when the fetch raises, the body is not JSON, or the parsed
\* body has an unexpected shape, getData ends with the user-facing error.
C2_EveryUnexpectedShapeSignalled ==
    (op = "getData"
        /\ (~Parsed \/ ~ExpectedShape(request, upstream.value.value)))
        => ret = Throw("UserError")

\* A day entry from which a requested value cannot be read.
DayUnreadable(d, names) ==
    \/ \E i \in 1..Len(names) :
          names[i] = "day" /\ (IsNullish(d) \/ Get(d, K_day).t # "str")
    \/ \E i \in 1..Len(names) : names[i] = "downloads" /\ IsNullish(d)

\* A package entry that is null or undefined, has no downloads array, or
\* holds an unreadable day.
EntryUnreadable(e, names) ==
    \/ IsNullish(e)
    \/ Get(e, K_downloads).t # "arr"
    \/ \E i \in 1..Len(Get(e, K_downloads).elems) :
          DayUnreadable(Get(e, K_downloads).elems[i], names)

\* A parsed body on which normalizing and formatting raise.
Unreadable(req, v) ==
    IF RequestedCount(req) = 1 THEN EntryUnreadable(v, RequestedNames(req))
    ELSE \/ IsNullish(v)
         \/ \E i \in 1..Len(ObjectKeys(v)) :
               EntryUnreadable(Get(v, ObjectKeys(v)[i]), RequestedNames(req))

\* C2, amended: getData ends with the user-facing error, and returns
\* nothing, exactly when the fetch raises, the body is not JSON, or reading
\* the parsed body raises (it is null, a package entry is null or has no
\* downloads array, or a requested value cannot be read from a day entry);
\* and getData never returns rows in those cases.
C2_FailuresSignalled ==
    op = "getData"
        => /\ ret = Throw("UserError")
                <=> (~Parsed \/ Unreadable(request, upstream.value.value))
           /\ (~Parsed \/ Unreadable(request, upstream.value.value))
                => ret.kind # "return"

\* C2 witness: a two-package request is answered with a mapping in which
\* one package is null, and getData ended with the user-facing error.
C2_Witness ==
    /\ op = "getData"
    /\ Parsed
    /\ RequestedCount(request) = 2
    /\ upstream.value.value =
           JObj(<<Prop(<<"a">>, Single(<<Daily(Day1, 10)>>)), Prop(<<"b">>, JNull)>>)
    /\ ret = Throw("UserError")

\* C5: normalizeResponse decides from the number of entries of the
\* request's package list alone: with one entry the result maps that
\* package name, and nothing else, to the whole parsed response; with more
\* the result is the parsed response itself.
C5_BranchOnRequestedCount ==
    (op = "normalizeResponse"
        /\ args.responseString.wellFormed
        /\ ~IsNullish(request.configParams)
        /\ Get(request.configParams, K_package).t = "str")
        => IF RequestedCount(request) = 1
           THEN ret = Return(JObj(<<Prop(PackageOf(request.configParams),
                                         args.responseString.value)>>))
           ELSE ret = Return(args.responseString.value)

\* C5 witness: a request for two packages got a response of the
\* single-package shape and it was passed through as it was.
C5_Witness ==
    /\ op = "normalizeResponse"
    /\ args.responseString.wellFormed
    /\ Get(request.configParams, K_package) = JStr(PkgAB)
    /\ IsSingleShape(args.responseString.value)
    /\ ret = Return(args.responseString.value)

\* The value the specification gives for one field id.
ExpectedCell(id, packageName, dailyDownload) ==
    CASE id = "day" ->
            JStr(SelectSeq(Get(dailyDownload, K_day).s, LAMBDA c : c # "-"))
      [] id = "downloads" -> Get(dailyDownload, K_downloads)
      [] id = "packageName" -> JStr(packageName)
      [] OTHER -> JStr(<<>>)

\* C6: for a (package, day) observation and any list of requested fields,
\* formatData gives as many values as fields, the i-th decided by the i-th
\* field id: the day without its '-', the download count, the package name,
\* or the empty string for any other id.
C6_ValuesFollowFields ==
    (op = "formatData" /\ IsDaily(args.dailyDownload))
        => /\ ret.kind = "return"
           /\ Get(ret.value, K_values).t = "arr"
           /\ LET values == Get(ret.value, K_values).elems
              IN  /\ Len(values) = Len(args.requestedFields)
                  /\ \A i \in 1..Len(values) :
                        values[i] = ExpectedCell(args.requestedFields[i].id,
                                                 args.packageName,
                                                 args.dailyDownload)

\* C6 witness: formatData was asked for an id outside the schema and for
\* the day of 2023-01-01.
C6_Witness ==
    /\ op = "formatData"
    /\ args.dailyDownload = Daily(Day1, 10)
    /\ Len(args.requestedFields) = 2
    /\ args.requestedFields[1].id = "other"
    /\ args.requestedFields[2].id = "day"
    /\ ret.kind = "return"
    /\ Get(ret.value, K_values) =
           JArr(<<JStr(<<>>), JStr(<<"2","0","2","3","0","1","0","1">>)>>)

\* The days of the i-th package of a normalized response.
DaysOf(response, i) == Get(response.props[i].v, K_downloads).elems

\* The number of days of the first n packages.
RECURSIVE DaysBefore(_, _)
DaysBefore(response, n) ==
    IF n = 0 THEN 0 ELSE DaysBefore(response, n - 1) + Len(DaysOf(response, n))

\* C7: for a normalized response getFormattedData gives one row per
\* (package, day) pair, packages in the order of the mapping and days in
\* the order of the package's sequence, so that the number of rows is the
\* sum of the packages' day counts.
C7_OneRowPerPackageDay ==
    (op = "getFormattedData" /\ IsNormalizedResponse(args.response))
        => /\ ret.kind = "return"
           /\ Len(ret.value) = DaysBefore(args.response, Len(args.response.props))
           /\ \A i \in 1..Len(args.response.props) :
                 \A j \in 1..Len(DaysOf(args.response, i)) :
                    LET row == ret.value[DaysBefore(args.response, i - 1) + j]
                        values == Get(row, K_values).elems
                    IN  \A f \in 1..Len(args.requestedFields) :
                           values[f] =
                               ExpectedCell(args.requestedFields[f].id,
                                            args.response.props[i].k,
                                            DaysOf(args.response, i)[j])

\* C7 witness: package b with two days before package a with one day gave
\* three rows.
C7_Witness ==
    /\ op = "getFormattedData"
    /\ args.response =
           JObj(<<Prop(<<"b">>, Single(<<Daily(Day1, 10), Daily(Day2, 20)>>)),
                  Prop(<<"a">>, Single(<<Daily(Day1, 10)>>))>>)
    /\ Len(args.requestedFields) = 3
    /\ ret.kind = "return"
    /\ Len(ret.value) = 3

\* End-to-end scenario 1 of the specification.
Scenario1 ==
    /\ op = "getFormattedData"
    /\ args.response =
           JObj(<<Prop(LeftPad, Single(<<Daily(Day1, 10), Daily(Day2, 20)>>))>>)
    /\ args.requestedFields = forIds(getFields, <<"packageName", "day", "downloads">>)

Scenario1Row1 ==
    <<JStr(LeftPad), JStr(<<"2","0","2","3","0","1","0","1">>), JNum(10)>>

Scenario1Row2 ==
    <<JStr(LeftPad), JStr(<<"2","0","2","3","0","1","0","2">>), JNum(20)>>

\* C8 as stated: every row is itself the sequence of values; in scenario 1
\* the rows are the two sequences of the specification.
C8_RowsAreBareSequences ==
    /\ (op = "getFormattedData" /\ ret.kind = "return")
          => \A k \in 1..Len(ret.value) : ret.value[k].t = "arr"
    /\ Scenario1 => ret = Return(<<JArr(Scenario1Row1), JArr(Scenario1Row2)>>)

\* C8, amended: every row is an object whose only property, `values`, is
\* the ordered sequence of values, one per requested field; in scenario 1
\* the rows are {values: ["left-pad","20230101",10]} and
\* {values: ["left-pad","20230102",20]}.
C8_RowsWrapValues ==
    /\ (op = "getFormattedData" /\ ret.kind = "return")
          => \A k \in 1..Len(ret.value) :
                /\ ret.value[k].t = "obj"
                /\ ObjectKeys(ret.value[k]) = <<K_values>>
                /\ Get(ret.value[k], K_values).t = "arr"
                /\ Len(Get(ret.value[k], K_values).elems) = Len(args.requestedFields)
    /\ Scenario1 => ret = Return(<<JObj(<<Prop(K_values, JArr(Scenario1Row1))>>),
                                   JObj(<<Prop(K_values, JArr(Scenario1Row2))>>)>>)

\* C8 witness: scenario 1 was formatted, into two rows.
C8_Witness == Scenario1 /\ ret.kind = "return" /\ Len(ret.value) = 2

====
